---------------------------- MODULE Spec2Model ----------------------------
(***************************************************************************)
(* Model of src/generate_asp_ics.py: the generator of the iCalendar feed   *)
(* of NYC alternate-side-parking suspensions.                              *)
(*                                                                         *)
(* A Python str is a sequence of one-character strings, so that strip,    *)
(* replace, lower and the substring test act on characters.  An emoji is   *)
(* one element written "(name)"; two keywords of HOLIDAY_EMOJI carry the   *)
(* same element exactly when they carry the same emoji in the source.      *)
(* A date is a triple <<year, month, day>>.  A Python list is an object:   *)
(* the heap maps a reference to the list's content, a dict is a sequence   *)
(* of <<key, reference>> pairs in insertion order.                         *)
(***************************************************************************)
EXTENDS Integers, Sequences, FiniteSets, TLC

VARIABLES
    pc,         \* position in main(): "load", "fetch", "merge", "build", "write", "done"
                \* (or the position of a function applied on its own, see the end)
    fileNo,     \* load_scheduled_suspensions: index of the year file being read
    fileKeys,   \* date strings of the current file already iterated
    nEntries,   \* number of file items iterated so far
    heap,       \* list objects: reference -> content
    scheduled,  \* the dict the loader builds and returns
    response,   \* what the request of the status page met: None before the
                \* request, then "error", "no_signal" or "suspended"
    live,       \* result of fetch_live_today_suspension: None or <<date, reference>>
    combined,   \* main's combined dict
    events,     \* main's list of VEVENT line lists
    doc,        \* lines written to OUT_PATH
    arg,        \* argument of a function applied on its own
    res         \* its result

vars == <<pc, fileNo, fileKeys, nEntries, heap, scheduled, response, live,
          combined, events, doc, arg, res>>

None == "None"

-----------------------------------------------------------------------------
(* Characters and str methods                                              *)

BSL == "\\"
NL == "\n"

UPPER == <<"A","B","C","D","E","F","G","H","I","J","K","L","M",
           "N","O","P","Q","R","S","T","U","V","W","X","Y","Z">>

LOWER == <<"a","b","c","d","e","f","g","h","i","j","k","l","m",
           "n","o","p","q","r","s","t","u","v","w","x","y","z">>

DIGITS == <<"0","1","2","3","4","5","6","7","8","9">>

IsSpace(c) == c \in {" ", NL, "\t", "\r"}

\* str.lower() on one character
lower_char(c) ==
    IF \E i \in DOMAIN UPPER : UPPER[i] = c
    THEN LOWER[CHOOSE i \in DOMAIN UPPER : UPPER[i] = c]
    ELSE c

\* str.lower()
lower(s) == [i \in DOMAIN s |-> lower_char(s[i])]

\* str.rstrip()
RECURSIVE rstrip(_)
rstrip(s) ==
    IF s # <<>> /\ IsSpace(s[Len(s)]) THEN rstrip(SubSeq(s, 1, Len(s) - 1)) ELSE s

\* str.lstrip()
RECURSIVE lstrip(_)
lstrip(s) ==
    IF s # <<>> /\ IsSpace(s[1]) THEN lstrip(Tail(s)) ELSE s

\* str.strip()
strip(s) == lstrip(rstrip(s))

\* key in h  (substring test of str)
contains(h, key) ==
    \E i \in 0..(Len(h) - Len(key)) :
        \A j \in 1..Len(key) : h[i + j] = key[j]

\* sep.join(parts)
RECURSIVE join(_, _)
join(sep, parts) ==
    IF parts = <<>> THEN <<>>
    ELSE IF Len(parts) = 1 THEN parts[1]
    ELSE parts[1] \o sep \o join(sep, Tail(parts))

\* x in lst
member(x, lst) == \E i \in DOMAIN lst : lst[i] = x

\* s.replace(ch, repl) for a one-character ch
RECURSIVE replace(_, _, _)
replace(s, ch, repl) ==
    IF s = <<>> THEN <<>>
    ELSE (IF s[1] = ch THEN repl ELSE <<s[1]>>) \o replace(Tail(s), ch, repl)

-----------------------------------------------------------------------------
(* Titles                                                                  *)

HOLIDAY_EMOJI == <<
       <<<<"N","e","w"," ","Y","e","a","r">>, <<"(party)">> >>,
       <<<<"M","a","r","t","i","n"," ","L","u","t","h","e","r"," ","K","i","n","g">>, <<"(fist_medium)">> >>,
       <<<<"P","r","e","s","i","d","e","n","t","s">>, <<"(flag_us)">> >>,
       <<<<"L","i","n","c","o","l","n">>, <<"(top_hat)">> >>,
       <<<<"W","a","s","h","i","n","g","t","o","n">>, <<"(flag_us)">> >>,
       <<<<"G","o","o","d"," ","F","r","i","d","a","y">>, <<"(cross)">> >>,
       <<<<"E","a","s","t","e","r">>, <<"(chick)">> >>,
       <<<<"P","a","s","s","o","v","e","r">>, <<"(menorah)">> >>,
       <<<<"M","e","m","o","r","i","a","l"," ","D","a","y">>, <<"(medal)">> >>,
       <<<<"J","u","n","e","t","e","e","n","t","h">>, <<"(fist_dark)">> >>,
       <<<<"I","n","d","e","p","e","n","d","e","n","c","e"," ","D","a","y">>, <<"(fireworks)">> >>,
       <<<<"L","a","b","o","r"," ","D","a","y">>, <<"(tools)">> >>,
       <<<<"R","o","s","h"," ","H","a","s","h","a","n","a","h">>, <<"(honey)">> >>,
       <<<<"Y","o","m"," ","K","i","p","p","u","r">>, <<"(pray)">> >>,
       <<<<"S","u","k","k","o","t","h">>, <<"(herb)">> >>,
       <<<<"T","h","a","n","k","s","g","i","v","i","n","g">>, <<"(turkey)">> >>,
       <<<<"C","h","r","i","s","t","m","a","s">>, <<"(tree)">> >>,
       <<<<"C","o","l","u","m","b","u","s">>, <<"(compass)">> >>,
       <<<<"V","e","t","e","r","a","n","s">>, <<"(ribbon)">> >>,
       <<<<"E","l","e","c","t","i","o","n"," ","D","a","y">>, <<"(ballot)">> >>,
       <<<<"L","u","n","a","r"," ","N","e","w"," ","Y","e","a","r">>, <<"(red_envelope)">> >>,
       <<<<"R","a","m","a","d","a","n">>, <<"(moon)">> >>,
       <<<<"E","i","d">>, <<"(moon)">> >>,
       <<<<"A","s","h"," ","W","e","d","n","e","s","d","a","y">>, <<"(cross)">> >>,
       <<<<"P","u","r","i","m">>, <<"(masks)">> >>,
       <<<<"A","l","l"," ","S","a","i","n","t","s">>, <<"(church)">> >>,
       <<<<"H","a","l","l","o","w","e","e","n">>, <<"(pumpkin)">> >> >>

SUSPENDED_PREFIX == <<"(no_entry)", "(p_button)", " ">> \o <<"S","u","s","p","e","n","d","e","d">>

EM_DASH == "(em_dash)"

\* key.lower() of every key of HOLIDAY_EMOJI
KEYS_LOWER == [k \in DOMAIN HOLIDAY_EMOJI |-> lower(HOLIDAY_EMOJI[k][1])]

\* the inner loop of emojis_for_holidays over HOLIDAY_EMOJI.items(), from
\* item k on, for one holiday whose h.lower() is hl: the emoji of every key
\* with key.lower() in h.lower(), in mapping order
RECURSIVE found_in(_, _)
found_in(hl, k) ==
    IF k > Len(HOLIDAY_EMOJI) THEN <<>>
    ELSE (IF contains(hl, KEYS_LOWER[k])
          THEN <<HOLIDAY_EMOJI[k][2]>> ELSE <<>>) \o found_in(hl, k + 1)

\* the outer loop: the list "found"
RECURSIVE found_all(_)
found_all(holidays) ==
    IF holidays = <<>> THEN <<>>
    ELSE LET hl == lower(holidays[1])
         IN  found_in(hl, 1) \o found_all(Tail(holidays))

\* the second loop: de-dupe while preserving order ("seen" is the set of
\* the elements of "out")
RECURSIVE dedupe(_, _)
dedupe(found, out) ==
    IF found = <<>> THEN out
    ELSE dedupe(Tail(found),
                IF member(found[1], out) THEN out ELSE Append(out, found[1]))

\* "".join(out) of a list of strings
RECURSIVE concat(_)
concat(parts) == IF parts = <<>> THEN <<>> ELSE parts[1] \o concat(Tail(parts))

\* a variant that joins "found" without the de-dupe loop
emojis_no_dedupe(holidays) == concat(found_all(holidays))

emojis_for_holidays(holidays) == concat(dedupe(found_all(holidays), <<>>))

build_summary(holidays) ==
    IF holidays # <<>>
    THEN LET title == SUSPENDED_PREFIX \o <<" ", EM_DASH, " ">>
                        \o join(<<" ", "/", " ">>, holidays)
         IN  strip(title \o rstrip(<<" ">> \o emojis_for_holidays(holidays)))
    ELSE SUSPENDED_PREFIX

-----------------------------------------------------------------------------
(* Dates: datetime.date as the triple <<year, month, day>>                 *)

\* calendar.isleap, as datetime uses it
is_leap(y) == y % 4 = 0 /\ (y % 100 # 0 \/ y % 400 = 0)

DAYS_IN_MONTH == <<31, 28, 31, 30, 31, 30, 31, 31, 30, 31, 30, 31>>

DAYS_BEFORE_MONTH == <<0, 31, 59, 90, 120, 151, 181, 212, 243, 273, 304, 334>>

days_in_month(y, m) == IF m = 2 /\ is_leap(y) THEN 29 ELSE DAYS_IN_MONTH[m]

days_before_year(y) ==
    LET p == y - 1 IN p * 365 + (p \div 4) - (p \div 100) + (p \div 400)

days_before_month(y, m) ==
    DAYS_BEFORE_MONTH[m] + (IF m > 2 /\ is_leap(y) THEN 1 ELSE 0)

\* date.toordinal()
ymd2ord(d) == days_before_year(d[1]) + days_before_month(d[1], d[2]) + d[3]

\* date.fromordinal(n)
ord2ymd(n) ==
    LET n0   == n - 1
        n400 == n0 \div 146097
        r400 == n0 % 146097
        n100 == r400 \div 36524
        r100 == r400 % 36524
        n4   == r100 \div 1461
        r4   == r100 % 1461
        n1   == r4 \div 365
        r1   == r4 % 365
        year == n400 * 400 + 1 + n100 * 100 + n4 * 4 + n1
    IN  IF n1 = 4 \/ n100 = 4 THEN <<year - 1, 12, 31>>
        ELSE LET leapyear == n1 = 3 /\ (n4 # 24 \/ n100 = 3)
                 month0   == (r1 + 50) \div 32
                 prec0    == DAYS_BEFORE_MONTH[month0]
                               + (IF month0 > 2 /\ leapyear THEN 1 ELSE 0)
                 month    == IF prec0 > r1 THEN month0 - 1 ELSE month0
                 prec     == IF prec0 > r1
                             THEN prec0 - (DAYS_IN_MONTH[month]
                                    + (IF month = 2 /\ leapyear THEN 1 ELSE 0))
                             ELSE prec0
             IN  <<year, month, r1 - prec + 1>>

\* date_ + dt.timedelta(days=n)
date_add_days(d, n) == ord2ymd(ymd2ord(d) + n)

\* a variant of the addition that ignores the month's length
date_add_days_no_rollover(d, n) == <<d[1], d[2], d[3] + n>>

\* dt.date.fromisoformat accepts the string "YYYY-MM-DD" written from the
\* triple s when s names a day of the calendar, and raises ValueError otherwise
fromisoformat_ok(s) ==
    /\ s[1] \in 1..9999
    /\ s[2] \in 1..12
    /\ s[3] \in 1..days_in_month(s[1], s[2])

\* the order of datetime.date
date_lt(a, b) ==
    \/ a[1] < b[1]
    \/ a[1] = b[1] /\ a[2] < b[2]
    \/ a[1] = b[1] /\ a[2] = b[2] /\ a[3] < b[3]

\* n written with exactly w digits (zero padded)
RECURSIVE digits(_, _)
digits(n, w) ==
    IF w = 0 THEN <<>> ELSE Append(digits(n \div 10, w - 1), DIGITS[(n % 10) + 1])

\* date_.strftime('%Y%m%d')
strftime_Ymd(d) == digits(d[1], 4) \o digits(d[2], 2) \o digits(d[3], 2)

\* date_.isoformat()
isoformat(d) == digits(d[1], 4) \o <<"-">> \o digits(d[2], 2) \o <<"-">> \o digits(d[3], 2)

\* sorted(keys): insertion of x into an ascending sequence, after its equals
RECURSIVE insert_sorted(_, _)
insert_sorted(x, s) ==
    IF s = <<>> THEN <<x>>
    ELSE IF date_lt(x, s[1]) THEN <<x>> \o s
    ELSE <<s[1]>> \o insert_sorted(x, Tail(s))

RECURSIVE sort_from(_, _)
sort_from(keys, acc) ==
    IF keys = <<>> THEN acc ELSE sort_from(Tail(keys), insert_sorted(keys[1], acc))

\* a variant that keeps the insertion order of the dict
sorted_insertion_order(keys) == keys

\* sorted(combined.keys())
sorted(keys) == sort_from(keys, <<>>)

-----------------------------------------------------------------------------
(* ICS writer                                                              *)

\* a variant that substitutes the backslash after the other characters
ics_escape_backslash_last(s) ==
    replace(replace(replace(replace(s, ";", <<BSL, ";">>),
                            ",", <<BSL, ",">>),
                    NL, <<BSL, "n">>),
            BSL, <<BSL, BSL>>)

ics_escape(s) ==
    replace(replace(replace(replace(s, BSL, <<BSL, BSL>>),
                            ";", <<BSL, ";">>),
                    ",", <<BSL, ",">>),
            NL, <<BSL, "n">>)

\* hashlib.sha1(x).hexdigest()[:16], left uninterpreted: the digest of x is
\* the term <<"sha1_16", x>>
sha1_16(x) == <<"sha1_16", x>>

uid_for(date_, summary) ==
    <<"asp-", isoformat(date_), "-", sha1_16(isoformat(date_) \o <<"|">> \o summary),
      "@aspcalendar">>

\* the description main() builds; now is the clock reading.  The texts
\* between the newlines hold no character ics_escape substitutes and are
\* written as one element each, and so is CAL_NAME's text.
description(now) ==
    <<"NYC Alternate Side Parking is SUSPENDED.", NL,
      "Sources: Scheduled suspension list + NYC 311 live status.", NL,
      "Generated: ", now, NL>>

\* a variant whose end date is the start date with the day number plus one
build_all_day_event_dtend_no_rollover(date_, summary, desc, now_utc) ==
    LET dtend == date_add_days_no_rollover(date_, 1)
    IN  << <<"BEGIN", "VEVENT">>,
           <<"UID", uid_for(date_, summary)>>,
           <<"DTSTAMP", now_utc>>,
           <<"DTSTART;VALUE=DATE", strftime_Ymd(date_)>>,
           <<"DTEND;VALUE=DATE", strftime_Ymd(dtend)>>,
           <<"SUMMARY", ics_escape(summary)>>,
           <<"DESCRIPTION", ics_escape(desc)>>,
           <<"TRANSP", "TRANSPARENT">>,
           <<"END", "VEVENT">> >>

\* a content line "NAME:value" is the pair <<NAME, value>>
build_all_day_event(date_, summary, desc, now_utc) ==
    LET dtend == date_add_days(date_, 1)
    IN  << <<"BEGIN", "VEVENT">>,
           <<"UID", uid_for(date_, summary)>>,
           <<"DTSTAMP", now_utc>>,
           <<"DTSTART;VALUE=DATE", strftime_Ymd(date_)>>,
           <<"DTEND;VALUE=DATE", strftime_Ymd(dtend)>>,
           <<"SUMMARY", ics_escape(summary)>>,
           <<"DESCRIPTION", ics_escape(desc)>>,
           <<"TRANSP", "TRANSPARENT">>,
           <<"END", "VEVENT">> >>

CAL_NAME == <<"NYC Alternate Side Parking ", EM_DASH, " Suspensions (Live + Scheduled)">>

\* the lines write_calendar joins and writes
calendar_lines(evs) ==
    << <<"BEGIN", "VCALENDAR">>,
       <<"VERSION", "2.0">>,
       <<"PRODID", "-//NYC ASP Suspensions//EN">>,
       <<"CALSCALE", "GREGORIAN">>,
       <<"X-WR-CALNAME", ics_escape(CAL_NAME)>>,
       <<"X-WR-TIMEZONE", "America/New_York">> >>
    \o concat(evs)
    \o << <<"END", "VCALENDAR">> >>

-----------------------------------------------------------------------------
(* dict and list objects                                                   *)

\* d.keys(), in insertion order
dict_keys(d) == [i \in DOMAIN d |-> d[i][1]]

\* k in d
dict_has(d, k) == \E i \in DOMAIN d : d[i][1] = k

\* d[k]: the reference stored under k
dict_get(d, k) == d[CHOOSE i \in DOMAIN d : d[i][1] = k][2]

\* d[k] = ref: a new key goes last, an existing key keeps its place
dict_set(d, k, ref) ==
    IF dict_has(d, k)
    THEN [i \in DOMAIN d |-> IF d[i][1] = k THEN <<k, ref>> ELSE d[i]]
    ELSE Append(d, <<k, ref>>)

\* the content of every list of a dict: date -> list, at heap hp
dict_lists(d, hp) == [i \in DOMAIN d |-> <<d[i][1], hp[d[i][2]]>>]

-----------------------------------------------------------------------------
(* Inputs                                                                  *)

MaxEntries == 3
MaxLen == 2
MaxStrLen == 3

YEARS_FORWARD == 5

MinReasonLen == 3
MaxReasonLen == 80

Eid == <<"E","i","d">>
EidSp == <<"E","i","d"," ">>
Blank == <<" ">>
Snow == <<"S","n","o","w">>
SnowSp == <<"S","n","o","w"," ">>
LunarNewYear == <<"L","u","n","a","r"," ","N","e","w"," ","Y","e","a","r">>
Presidents == <<"P","r","e","s","i","d","e","n","t","s">>
washington == <<"w","a","s","h","i","n","g","t","o","n">>
FALLBACK_REASON == <<"N","Y","C"," ","3","1","1"," ","u","p","d","a","t","e">>

\* all sequences over S of length at most n
SeqUpTo(S, n) == UNION {[1..k -> S] : k \in 0..n}

\* the value of a file item: a JSON list of strings, or a JSON string
RawValues ==
    {[list |-> TRUE, v |-> l] :
        l \in {<<>>, <<Blank>>, <<Eid>>, <<EidSp>>, <<Eid, Eid>>, <<EidSp, Eid>>}}
    \cup {[list |-> FALSE, v |-> Eid]}

\* the keys of a file item, as the triple written in the string; the last
\* one is no day of the calendar
DateStrPool == {<<2026, 12, 31>>, <<2027, 1, 1>>, <<2027, 2, 29>>}

\* readings of dt.date.today() in fetch_live_today_suspension
TodayPool == {<<2026, 6, 19>>, <<2026, 12, 31>>}

\* group(1) of the "because of|for" search in the snippet, or None
GroupPool == {None, EidSp, <<"i","t">>}

\* clock readings
NowPool == {"T0", "T1"}

-----------------------------------------------------------------------------
(* load_scheduled_suspensions                                              *)

\* existing + [h for h in holidays if h not in existing]
merge_holidays(existing, holidays) ==
    existing \o SelectSeq(holidays, LAMBDA h : ~member(h, existing))

\* one item (date_str, holidays) of the current file
LoadEntry(date_str, raw) ==
    /\ pc = "load"
    /\ fileNo <= YEARS_FORWARD
    /\ nEntries < MaxEntries
    /\ date_str \notin fileKeys
    /\ fileKeys' = fileKeys \cup {date_str}
    /\ nEntries' = nEntries + 1
    /\ IF ~fromisoformat_ok(date_str)
       THEN UNCHANGED <<heap, scheduled>>
       ELSE LET d        == date_str
                holidays == IF raw.list THEN raw.v ELSE <<raw.v>>
                existing == IF dict_has(scheduled, d)
                            THEN heap[dict_get(scheduled, d)] ELSE <<>>
                merged   == merge_holidays(existing, holidays)
            IN  \* merged is a new list; the list it replaces is referenced
                \* nowhere else, and its reference is reused
                IF dict_has(scheduled, d)
                THEN /\ heap' = [heap EXCEPT ![dict_get(scheduled, d)] = merged]
                     /\ UNCHANGED scheduled
                ELSE /\ heap' = Append(heap, merged)
                     /\ scheduled' = dict_set(scheduled, d, Len(heap) + 1)
    /\ UNCHANGED <<pc, fileNo, response, live, combined, events, doc, arg, res>>

\* the file of this year does not exist, or all its items are done
NextFile ==
    /\ pc = "load"
    /\ fileNo <= YEARS_FORWARD
    /\ fileNo' = fileNo + 1
    /\ fileKeys' = {}
    /\ UNCHANGED <<pc, nEntries, heap, scheduled, response, live, combined, events,
                   doc, arg, res>>

\* return susp
LoadReturn ==
    /\ pc = "load"
    /\ fileNo > YEARS_FORWARD
    /\ pc' = "fetch"
    /\ nEntries' = 0
    /\ UNCHANGED <<fileNo, fileKeys, heap, scheduled, response, live, combined,
                   events, doc, arg, res>>

-----------------------------------------------------------------------------
(* fetch_live_today_suspension                                             *)

\* a variant in which a failed request or a page without a suspension
\* pattern yields the fallback reason
fetch_fallback_on_failure(ok, suspended, group, today) ==
    IF ok /\ suspended /\ group # None
          /\ Len(strip(group)) >= MinReasonLen /\ Len(strip(group)) <= MaxReasonLen
    THEN <<today, <<strip(group)>> >>
    ELSE <<today, <<FALLBACK_REASON>> >>

\* ok: the request succeeded; suspended: a SUSPENDED_PATTERNS search matches
\* the page; group: group(1) of the reason search, or None.  The result is
\* None or <<date, reasons>> (the snippet is not used by main).  The split at
\* a tag character leaves the group as it is: the group holds none of them.
fetch_live_today_suspension(ok, suspended, group, today) ==
    IF ~ok THEN None
    ELSE IF ~suspended THEN None
    ELSE LET reason  == IF group = None THEN None ELSE strip(group)
             reasons == IF reason # None /\ Len(reason) >= MinReasonLen
                                         /\ Len(reason) <= MaxReasonLen
                        THEN <<reason>> ELSE <<>>
         IN  <<today, IF reasons = <<>> THEN <<FALLBACK_REASON>> ELSE reasons>>

Fetch(ok, suspended, group, today) ==
    /\ pc = "fetch"
    /\ LET r == fetch_live_today_suspension(ok, suspended, group, today)
       IN  IF r = None
           THEN /\ live' = None
                /\ UNCHANGED heap
           ELSE /\ heap' = Append(heap, r[2])
                /\ live' = <<r[1], Len(heap) + 1>>
    /\ response' = IF ~ok THEN "error" ELSE IF ~suspended THEN "no_signal" ELSE "suspended"
    /\ pc' = "merge"
    /\ UNCHANGED <<fileNo, fileKeys, nEntries, scheduled, combined, events, doc, arg, res>>

-----------------------------------------------------------------------------
(* main                                                                    *)

\* for r in reasons: if r not in existing: existing.append(r)
RECURSIVE append_new(_, _)
append_new(existing, reasons) ==
    IF reasons = <<>> THEN existing
    ELSE append_new(IF member(reasons[1], existing) THEN existing
                    ELSE Append(existing, reasons[1]),
                    Tail(reasons))

\* combined = dict(scheduled) copies the references, not the lists: the
\* append acts on the list object the scheduled dict holds too
Merge ==
    /\ pc = "merge"
    /\ LET c0 == scheduled
       IN  IF live # None
           THEN LET d == live[1]
                    reasons == heap[live[2]]
                IN  IF dict_has(c0, d)
                    THEN /\ heap' = [heap EXCEPT ![dict_get(c0, d)] =
                                        append_new(heap[dict_get(c0, d)], reasons)]
                         /\ combined' = dict_set(c0, d, dict_get(c0, d))
                    ELSE /\ combined' = dict_set(c0, d, live[2])
                         /\ UNCHANGED heap
           ELSE /\ combined' = c0
                /\ UNCHANGED heap
    /\ pc' = "build"
    /\ UNCHANGED <<fileNo, fileKeys, nEntries, scheduled, response, live, events,
                   doc, arg, res>>

\* the events loop of main over sorted(combined.keys()); now is the reading
\* of the clock during the loop
build_events(comb, hp, now) ==
    LET keys == sorted(dict_keys(comb))
    IN  [i \in DOMAIN keys |->
            build_all_day_event(keys[i],
                                build_summary(hp[dict_get(comb, keys[i])]),
                                description(now),
                                now)]

Build(now) ==
    /\ pc = "build"
    /\ events' = build_events(combined, heap, now)
    /\ pc' = "write"
    /\ UNCHANGED <<fileNo, fileKeys, nEntries, heap, scheduled, response, live,
                   combined, doc, arg, res>>

\* write_calendar(events)
Write ==
    /\ pc = "write"
    /\ doc' = calendar_lines(events)
    /\ pc' = "done"
    /\ UNCHANGED <<fileNo, fileKeys, nEntries, heap, scheduled, response, live,
                   combined, events, arg, res>>

Init ==
    /\ pc = "load"
    /\ fileNo = 0
    /\ fileKeys = {}
    /\ nEntries = 0
    /\ heap = <<>>
    /\ scheduled = <<>>
    /\ response = None
    /\ live = None
    /\ combined = <<>>
    /\ events = <<>>
    /\ doc = <<>>
    /\ arg = None
    /\ res = None

Next ==
    \/ \E ds \in DateStrPool, raw \in RawValues : LoadEntry(ds, raw)
    \/ NextFile
    \/ LoadReturn
    \/ \E ok \in BOOLEAN, suspended \in BOOLEAN, group \in GroupPool, today \in TodayPool :
           Fetch(ok, suspended, group, today)
    \/ Merge
    \/ \E now \in NowPool : Build(now)
    \/ Write

Spec == Init /\ [][Next]_vars

-----------------------------------------------------------------------------
(* The functions applied on their own: the argument is drawn in the        *)
(* initial state, the one action applies the function.                     *)

\* the variables of main() at rest
MainIdle ==
    /\ fileNo = 0
    /\ fileKeys = {}
    /\ nEntries = 0
    /\ heap = <<>>
    /\ scheduled = <<>>
    /\ response = None
    /\ live = None
    /\ combined = <<>>
    /\ events = <<>>
    /\ doc = <<>>

mainVars == <<fileNo, fileKeys, nEntries, heap, scheduled, response, live, combined,
              events, doc>>

\* reasons of build_summary
SummaryReasonPool == {Eid, Snow, SnowSp, Blank, LunarNewYear, Presidents, washington}

InitSummary ==
    /\ pc = "summary"
    /\ arg \in SeqUpTo(SummaryReasonPool, MaxLen)
    /\ res = None
    /\ MainIdle

ApplySummary ==
    /\ pc = "summary"
    /\ res' = build_summary(arg)
    /\ pc' = "summarized"
    /\ UNCHANGED <<arg, mainVars>>

NextSummary == ApplySummary

SpecSummary == InitSummary /\ [][NextSummary]_vars

\* strings of ics_escape
EscapeAlphabet == {BSL, ";", ",", NL, "n", "a"}

InitEscape ==
    /\ pc = "escape"
    /\ arg \in SeqUpTo(EscapeAlphabet, MaxStrLen)
    /\ res = None
    /\ MainIdle

ApplyEscape ==
    /\ pc = "escape"
    /\ res' = ics_escape(arg)
    /\ pc' = "escaped"
    /\ UNCHANGED <<arg, mainVars>>

NextEscape == ApplyEscape

SpecEscape == InitEscape /\ [][NextEscape]_vars

\* dates of build_all_day_event: every day of these years
YearPool == {1900, 2000, 2024, 2026, 2027, 2100}

DatePool ==
    {d \in YearPool \X (1..12) \X (1..31) : d[3] <= days_in_month(d[1], d[2])}

InitEvent ==
    /\ pc = "event"
    /\ arg \in DatePool
    /\ res = None
    /\ MainIdle

ApplyEvent ==
    /\ pc = "event"
    /\ \E now \in NowPool :
          res' = build_all_day_event(arg, build_summary(<<Eid>>), description(now), now)
    /\ pc' = "event_built"
    /\ UNCHANGED <<arg, mainVars>>

NextEvent == ApplyEvent

SpecEvent == InitEvent /\ [][NextEvent]_vars

-----------------------------------------------------------------------------
(* Properties                                                              *)

\* the value of the first line of an event with the given name
Field(ev, name) == ev[CHOOSE i \in DOMAIN ev : ev[i][1] = name][2]

\* the number a digit string writes
RECURSIVE DigitsValue(_)
DigitsValue(s) ==
    IF s = <<>> THEN 0
    ELSE 10 * DigitsValue(SubSeq(s, 1, Len(s) - 1))
         + (CHOOSE n \in 0..9 : DIGITS[n + 1] = s[Len(s)])

IsDigits(s) == \A i \in DOMAIN s : \E n \in 0..9 : DIGITS[n + 1] = s[i]

IsBlank(s) == \A i \in DOMAIN s : IsSpace(s[i])

\* s without its trailing whitespace, stated by position
WithoutTrailingSpace(s) ==
    LET ends == {k \in 0..Len(s) : k = 0 \/ ~IsSpace(s[k])}
        n    == CHOOSE k \in ends : \A j \in ends : j <= k
    IN  SubSeq(s, 1, n)

\* the same strings after trimming
SameTrimmed(a, b) ==
    LET Core(s) ==
          LET ks == {k \in DOMAIN s : ~IsSpace(s[k])}
          IN  IF ks = {} THEN <<>>
              ELSE SubSeq(s, CHOOSE k \in ks : \A j \in ks : k <= j,
                             CHOOSE k \in ks : \A j \in ks : j <= k)
    IN  Core(a) = Core(b)

\* the value of every line of the document with the given name, in order
DocValues(name) ==
    LET ls == SelectSeq(doc, LAMBDA l : l[1] = name)
    IN  [i \in DOMAIN ls |-> ls[i][2]]

\* the reasons of date d at the scheduled source and at the live fact
ScheduledReasons(d) ==
    IF dict_has(scheduled, d) THEN heap[dict_get(scheduled, d)] ELSE <<>>

LiveReasons(d) ==
    IF live # None /\ live[1] = d THEN heap[live[2]] ELSE <<>>

\* the dates a run can meet
RunDates == {d \in DateStrPool : fromisoformat_ok(d)} \cup TodayPool

HasEvent(d) ==
    \E i \in DOMAIN doc : doc[i] = <<"DTSTART;VALUE=DATE", strftime_Ymd(d)>>

HasNonBlankReason(d) ==
    \/ \E i \in DOMAIN ScheduledReasons(d) : ~IsBlank(ScheduledReasons(d)[i])
    \/ \E i \in DOMAIN LiveReasons(d) : ~IsBlank(LiveReasons(d)[i])

\* C1: the written calendar holds an event for a date exactly when the date
\* has a reason that is not blank at the scheduled source or at the live
\* fact; a date whose reasons are none or all blank gets no event.
C1_EventIffNonBlankReason ==
    pc = "done" => \A d \in RunDates : HasEvent(d) <=> HasNonBlankReason(d)

\* the live reasons not yet present, compared after trimming, in live order
RECURSIVE NewAfterTrim(_, _)
NewAfterTrim(present, reasons) ==
    IF reasons = <<>> THEN <<>>
    ELSE IF \E i \in DOMAIN present : SameTrimmed(present[i], reasons[1])
         THEN NewAfterTrim(present, Tail(reasons))
         ELSE <<reasons[1]>> \o NewAfterTrim(Append(present, reasons[1]), Tail(reasons))

\* C2: the merge step leaves, for every date of the scheduled facts or of
\* the live fact, the scheduled reasons in their order followed by exactly
\* the live reasons not already present (compared case-sensitively after
\* trimming), in live order.
C2_ScheduledThenNewLiveTrimmed ==
    [][pc = "merge" =>
          \A d \in RunDates :
              (dict_has(scheduled, d) \/ (live # None /\ live[1] = d)) =>
                  /\ dict_has(combined', d)
                  /\ heap'[dict_get(combined', d)] =
                        ScheduledReasons(d)
                        \o NewAfterTrim(ScheduledReasons(d), LiveReasons(d))]_vars

\* no blank entry and no two entries equal after trimming
CleanList(l) ==
    /\ \A i \in DOMAIN l : ~IsBlank(l[i])
    /\ \A i, j \in DOMAIN l : i # j => ~SameTrimmed(l[i], l[j])

\* C3: whatever files were loaded and whether or not the live fact was
\* merged, no reason list of a date holds a blank entry or two entries
\* that are equal after trimming
C3_ListsCleanAndDeduplicated ==
    /\ \A i \in DOMAIN scheduled : CleanList(heap[scheduled[i][2]])
    /\ \A i \in DOMAIN combined : CleanList(heap[combined[i][2]])

\* the inverse of the escaping: a backslash and the character after it
\* stand for a newline when that character is n, and for the character
\* itself otherwise
RECURSIVE ics_unescape(_)
ics_unescape(s) ==
    IF s = <<>> THEN <<>>
    ELSE IF s[1] = BSL /\ Len(s) >= 2
         THEN <<IF s[2] = "n" THEN NL ELSE s[2]>> \o ics_unescape(SubSeq(s, 3, Len(s)))
         ELSE <<s[1]>> \o ics_unescape(Tail(s))

\* C4: ics_escape(s) holds no raw newline, unescaping it yields s, and it
\* is longer than s by one backslash per reserved character of s (no
\* backslash written for ; , or newline is escaped again)
C4_EscapeRoundTrip ==
    pc = "escaped" =>
        /\ \A i \in DOMAIN res : res[i] # NL
        /\ ics_unescape(res) = arg
        /\ Len(res) = Len(arg)
                      + Cardinality({i \in DOMAIN arg : arg[i] \in {BSL, ";", ",", NL}})

C4_Witness ==
    /\ pc = "escaped"
    /\ arg = <<BSL, "n", NL>>
    /\ res = <<BSL, BSL, "n", BSL, "n">>

\* C6: in the written document the events are in strictly ascending order
\* of their date, one event per date of the merged map
C6_EventsAscendingOnePerDate ==
    pc = "done" =>
        LET starts == DocValues("DTSTART;VALUE=DATE")
        IN  /\ \A i, j \in DOMAIN starts :
                  i < j => DigitsValue(starts[i]) < DigitsValue(starts[j])
            /\ Len(starts) = Len(combined)
            /\ {starts[i] : i \in DOMAIN starts}
                   = {strftime_Ymd(combined[i][1]) : i \in DOMAIN combined}
            /\ Len(SelectSeq(doc, LAMBDA l : l = <<"BEGIN", "VEVENT">>)) = Len(combined)
            /\ Len(SelectSeq(doc, LAMBDA l : l = <<"END", "VEVENT">>)) = Len(combined)

\* a run whose dates were met in an order that is not ascending: a later
\* date loaded first, and the live date, earlier than both, added last
C6_Witness ==
    /\ pc = "done"
    /\ dict_keys(combined) = << <<2027, 1, 1>>, <<2026, 12, 31>>, <<2026, 6, 19>> >>
    /\ Len(DocValues("DTSTART;VALUE=DATE")) = Len(combined)

\* the day after d by the rules of the calendar
LastDayOfMonth(y, m) ==
    IF m \in {4, 6, 9, 11} THEN 30
    ELSE IF m # 2 THEN 31
    ELSE IF y % 400 = 0 \/ (y % 4 = 0 /\ y % 100 # 0) THEN 29 ELSE 28

NextCalendarDay(d) ==
    IF d[3] < LastDayOfMonth(d[1], d[2]) THEN <<d[1], d[2], d[3] + 1>>
    ELSE IF d[2] < 12 THEN <<d[1], d[2] + 1, 1>>
    ELSE <<d[1] + 1, 1, 1>>

YmdValue(d) == d[1] * 10000 + d[2] * 100 + d[3]

WrittenEvents ==
    LET s == DocValues("DTSTART;VALUE=DATE")
        t == DocValues("SUMMARY")
        u == DocValues("UID")
    IN  [i \in DOMAIN s |-> <<s[i], t[i], u[i]>>]

\* the same, derived from the scheduled facts alone
ScheduledOnlyEvents ==
    LET ds    == {scheduled[i][1] : i \in DOMAIN scheduled}
        \* the k-th date in ascending order
        nth(k) == CHOOSE d \in ds : Cardinality({x \in ds : date_lt(x, d)}) = k - 1
        title(d) == build_summary(ScheduledReasons(d))
    IN  [k \in 1..Cardinality(ds) |->
            <<strftime_Ymd(nth(k)), ics_escape(title(nth(k))), uid_for(nth(k), title(nth(k)))>>]

LiveFailed == response \in {"error", "no_signal"}

\* C8: when the request of the status page fails or the page holds no
\* suspension signal, the run goes on with no live fact, and the events
\* of the written document (dates, titles, identifiers) are those derived
\* from the scheduled facts alone
C8_LiveFailureKeepsScheduledEvents ==
    LiveFailed =>
        /\ live = None
        /\ pc \in {"merge", "build", "write", "done"}
        /\ pc = "done" => WrittenEvents = ScheduledOnlyEvents

C8_Witness ==
    /\ pc = "done"
    /\ response = "error"
    /\ Len(scheduled) = 2
    /\ Len(WrittenEvents) = 2

\* the symbols of a reason list: the matches (reason i, keyword k) in the
\* order of i and then of k, each symbol kept at its first match only
ClaimSymbols(reasons) ==
    LET K == Len(HOLIDAY_EMOJI)
        reasonOf(n) == ((n - 1) \div K) + 1
        keyOf(n)    == ((n - 1) % K) + 1
        matches(n)  == contains(lower(reasons[reasonOf(n)]), lower(HOLIDAY_EMOJI[keyOf(n)][1]))
        symbol(n)   == HOLIDAY_EMOJI[keyOf(n)][2]
        first == SelectSeq([n \in 1..(Len(reasons) * K) |-> n],
                           LAMBDA n : /\ matches(n)
                                      /\ \A m \in 1..(n - 1) :
                                            matches(m) => symbol(m) # symbol(n))
    IN  concat([i \in DOMAIN first |-> symbol(first[i])])

\* prefix, dash, the reasons joined by " / ", and the symbols after a space
ClaimTitle(reasons) ==
    SUSPENDED_PREFIX \o <<" ", EM_DASH, " ">> \o join(<<" ", "/", " ">>, reasons)
    \o (IF ClaimSymbols(reasons) = <<>> THEN <<>> ELSE <<" ">> \o ClaimSymbols(reasons))

\* C9 as stated: for a reason list that is not empty the title is the
\* prefix, the dash, the joined reasons and the symbol suffix; with no
\* matching keyword it ends with the last reason
C9_TitleIsPrefixReasonsSymbols ==
    (pc = "summarized" /\ arg # <<>>) => res = ClaimTitle(arg)

\* C9 as amended: the title is that text with its trailing whitespace
\* removed, so with no matching keyword it ends with the last reason only
\* when that reason is not empty and has no trailing whitespace
C9_TitleIsTrimmedPrefixReasonsSymbols ==
    (pc = "summarized" /\ arg # <<>>) =>
        /\ res = WithoutTrailingSpace(ClaimTitle(arg))
        /\ ~IsSpace(res[Len(res)])

\* no keyword matches and the last reason ends with a space
C9_Witness ==
    /\ pc = "summarized"
    /\ arg = <<Snow, SnowSp>>
    /\ res = SUSPENDED_PREFIX \o <<" ", EM_DASH, " ">> \o Snow \o <<" ", "/", " ">> \o Snow

\* C10: the merge step leaves every reason list of the scheduled map as
\* the loader returned it
C10_MergeLeavesScheduledUnchanged ==
    [][pc = "merge" =>
          dict_lists(scheduled', heap') = dict_lists(scheduled, heap)]_vars

=============================================================================
